---- MODULE Spec2Model ----
(***************************************************************************)
(* Model of bundle_repos: the Repository locator, the per-host Throttler   *)
(* and the Bundler orchestration loop (bundle_all / bundle /               *)
(* check_bundle_required) of src/bundle_repos/__init__.py.                 *)
(*                                                                         *)
(* Spec          the orchestration loop over one batch of locators.        *)
(* SpecThrottle  a Throttler driven by arbitrary throttle calls while the  *)
(*               clock advances between the calls.                         *)
(***************************************************************************)
EXTENDS Integers, Sequences, FiniteSets, TLC

VARIABLES
    urls,         \* repo_urls: the batch handed to bundle_all
    ignore_rev,   \* BundleConfig.ignore_rev
    delay,        \* Throttler.delay (clock ticks)
    most_recent,  \* Throttler.most_recent: category -> time of last grant
    now,          \* the wall clock, what time.time() returns
    thr,          \* what the latest throttle call did (history of the call)
    archive,      \* archive tree: bundle path -> NoFile or [rev, mtime]
    dirs,         \* directories that exist in the archive tree
    writes,       \* number of writes made to archive files so far
    scratch,      \* scratch directories that currently exist
    pc,           \* position of bundle_all / bundle
    idx,          \* index in urls of the locator being processed
    num_ok,       \* bundle_all's counter
    outcome,      \* per locator: Pending, Succeeded, Skipped or Failed
    remote_rev,   \* check_bundle_required's remote_clone_revision
    ret,          \* what the last call of bundle that returned has returned
    cmdlog,       \* external commands run so far, <<command, idx, result>>
    error,        \* the exception raised in bundle_all (in flight or out), or "none"
    main,         \* main(): its position, parsed arguments and return status
    rep,          \* a Repository under construction and use (SpecRepo)
    pure          \* one call of a function that keeps no state: its input and result

vars == <<urls, ignore_rev, delay, most_recent, now, thr, archive, dirs,
          writes, scratch, pc, idx, num_ok, outcome, remote_rev, ret, cmdlog, error,
          main, rep, pure>>

orchVars == <<urls, ignore_rev, archive, dirs, writes, scratch, pc, idx,
              num_ok, outcome, remote_rev, ret, cmdlog, error, main, rep,
              pure>>

----------------------------------------------------------------------------
(* Bounds *)

MaxBatch == 3      \* longest batch of locators
MaxDelay == 2      \* largest configured throttle delay
MaxClock0 == 3     \* latest clock value at construction (SpecThrottle)
MaxCalls == 3      \* throttle calls made in SpecThrottle
MaxOversleep == 1  \* a sleep, or the time between the two clock reads,
                   \* lasts at most this much longer than asked
MaxSegs == 3       \* most path segments of a locator (SpecRepo)
MaxPathCalls == 2  \* make_bundle_path calls on one Repository (SpecRepo)
MaxVersionPart == 4  \* largest number in a version tuple (SpecVersion)
MaxKwargs == 2     \* most keyword arguments of a BundleConfig (SpecConfig)
MaxLines == 2      \* most lines of an index (SpecIndex)
MaxLineLen == 2    \* most characters of a line (SpecIndex)

----------------------------------------------------------------------------
(* Locators.  A locator string is held as urllib.parse.urlparse splits it: *)
(* scheme, username, hostname, port (0 for None) and the path as the list  *)
(* of its '/'-separated segments; a segment is a sequence of characters,   *)
(* a percent escape being one character.                                   *)

NoPort == 0

LocA1 == [scheme |-> "https", username |-> "", hostname |-> "hostA",
          port |-> NoPort, path |-> << <<"ns">>, <<"r1">> >>]
LocA2 == [scheme |-> "https", username |-> "", hostname |-> "hostA",
          port |-> NoPort, path |-> << <<"ns">>, <<"r2">> >>]
LocF1 == [scheme |-> "file", username |-> "", hostname |-> "",
          port |-> NoPort, path |-> << <<"ns">>, <<"r1">> >>]
LocBad == [scheme |-> "https", username |-> "", hostname |-> "hostA",
           port |-> NoPort, path |-> << <<"ns">>, <<"a", "%2F", "b">> >>]

Locators == {LocA1, LocA2, LocF1, LocBad}

_SUPPORTED_SCHEMES == {"https", "file"}
_DEFAULT_USERNAME == "git"
FILESYSTEM_DIR_BASENAME == "_filesystem"

\* urllib.parse.unquote_plus on one character
UnquoteChar(c) ==
    CASE c = "%2F" -> "/"
      [] c = "%2f" -> "/"
      [] c = "%20" -> " "
      [] c = "+"   -> " "
      [] c = "%2E" -> "."
      [] OTHER     -> c

unquote_plus(seg) == [k \in 1..Len(seg) |-> UnquoteChar(seg[k])]

HasSeparator(seg) == \E k \in 1..Len(seg) : seg[k] = "/"

\* mutant: no decoded part is looked at
check_nothing(parts) == TRUE

\* check_no_file_separator_chars: TRUE when it returns, FALSE when it raises
check_no_file_separator_chars(parts) ==
    \A k \in 1..Len(parts) : ~HasSeparator(parts[k])

NonEmpty(seg) == seg # <<>>

path_parts(url) == SelectSeq(url.path, NonEmpty)

path_prefix_parts(url) ==
    IF path_parts(url) = <<>> THEN <<>>
    ELSE SubSeq(path_parts(url), 1, Len(path_parts(url)) - 1)

decoded_path_prefix_parts(url) ==
    [k \in 1..Len(path_prefix_parts(url)) |-> unquote_plus(path_prefix_parts(url)[k])]

repo_name(url) == path_parts(url)[Len(path_parts(url))]

decoded_repo_name(url) == unquote_plus(repo_name(url))

RepoHost(url) ==
    IF url.scheme = "file" THEN FILESYSTEM_DIR_BASENAME ELSE url.hostname

\* Repository.__init__ returns (TRUE) or raises (FALSE)
RepositoryOK(url) ==
    /\ url.scheme \in _SUPPORTED_SCHEMES
    /\ url.port = NoPort
    /\ url.scheme = "file" \/ RepoHost(url) # ""
    /\ check_no_file_separator_chars(decoded_path_prefix_parts(url))
    /\ path_parts(url) # <<>>
    /\ check_no_file_separator_chars(<<decoded_repo_name(url)>>)
    /\ path_prefix_parts(url) # <<>>

\* Repository.make_bundle_path, relative to the parent directory: the list
\* of path components below parent
make_bundle_path(url) ==
    << <<RepoHost(url)>> >> \o decoded_path_prefix_parts(url)
        \o << decoded_repo_name(url) \o <<".bundle">> >>

\* os.path.dirname of a bundle path
BundleDir(p) == SubSeq(p, 1, Len(p) - 1)

\* os.makedirs(d, exist_ok=True): d and every ancestor of d below the parent
MakeDirs(d) == { SubSeq(d, 1, k) : k \in 1..Len(d) }

ValidLocators == { u \in Locators : RepositoryOK(u) }

BundlePaths == { make_bundle_path(u) : u \in ValidLocators }

\* head commit of the source repository behind a locator
SrcHead(url) == "c2"

Revs == {"c1", "c2"}

NoFile == [rev |-> "none", mtime |-> -1]

----------------------------------------------------------------------------
(* Throttler *)

Categories == { RepoHost(u) : u \in ValidLocators }

\* Throttler.__init__: most_recent = defaultdict(float)
EmptyLedger == [c \in {} |-> 0]

\* self.most_recent[category] read: a missing key reads as float() = 0.0
\* (and is inserted with that value)
LedgerGet(m, c) == IF c \in DOMAIN m THEN m[c] ELSE 0

\* mutant: one timestamp for all categories
LedgerPutAll(m, c, t) == [x \in (DOMAIN m) \cup {c} |-> t]

\* self.most_recent[category] = t
LedgerPut(m, c, t) == [x \in (DOMAIN m) \cup {c} |-> IF x = c THEN t ELSE m[x]]

\* mutant: a call that comes exactly delay after the last one sleeps as well
SleepDurationInclusive(interval, d) == IF interval <= d THEN d - interval + 1 ELSE 0

\* mutant: sleeps for the time already elapsed, not for the time remaining
SleepDurationElapsed(interval, d) == IF interval < d THEN interval ELSE 0

\* the argument of self.sleep in throttle, 0 when sleep is not called
SleepDuration(interval, d) == IF interval < d THEN d - interval ELSE 0

\* mutant: the clock value read at call entry is stored
GrantTimeAtEntry(current, after) == current

\* the value stored in the ledger: the clock read on line 139
GrantTime(current, after) == after

\* Throttler.throttle(category); the call takes `over` ticks more than the
\* sleep it asked for
throttle(category, over) ==
    LET last_call == LedgerGet(most_recent, category)
        current   == now
        interval  == current - last_call
        slept     == SleepDuration(interval, delay)
        after     == current + slept + over
    IN /\ now' = after
       /\ most_recent' = LedgerPut(most_recent, category, GrantTime(current, after))
       /\ thr' = [calls |-> thr.calls + 1, key |-> category,
                  first |-> category \notin DOMAIN most_recent,
                  last |-> last_call, entry |-> current,
                  slept |-> slept, exit |-> after]

NoCall == [calls |-> 0, key |-> "", first |-> FALSE, last |-> 0, entry |-> 0,
           slept |-> 0, exit |-> 0]

----------------------------------------------------------------------------
(* Batches and initial states *)

\* main is not running: the Bundler is used directly
NoMain == [pc |-> "none", delay |-> 0, ignore_rev |-> FALSE, index |-> <<>>,
           status |-> -1, version |-> "unchecked"]

\* bundle has not returned yet
NoReturn == [kind |-> "nothing", path |-> <<>>]

\* bundle, lines 236 and 244: return None
None == [kind |-> "None", path |-> <<>>]

\* bundle, line 248: return bundle_path
PathValue(p) == [kind |-> "path", path |-> p]

\* no Repository is under study
NoRep == [state |-> "none"]

\* no single function call is under study
NoPure == [state |-> "none"]

RECURSIVE SeqsUpTo(_, _)
SeqsUpTo(S, n) ==
    IF n = 0 THEN { <<>> }
    ELSE LET shorter == SeqsUpTo(S, n - 1)
         IN shorter \cup { Append(s, x) : s \in { t \in shorter : Len(t) = n - 1 }, x \in S }

Batches == SeqsUpTo(Locators, MaxBatch)

\* an archive tree as a run may find it: at each bundle path no file, or a
\* bundle written earlier whose head is some revision
ArchiveTrees == [BundlePaths -> {NoFile} \cup { [rev |-> r, mtime |-> 0] : r \in Revs }]

DirsOf(tree) == UNION { MakeDirs(BundleDir(p)) : p \in { q \in DOMAIN tree : tree[q] # NoFile } }

\* Bundler.__init__ with a BundleConfig, before bundle_all is called
Init ==
    /\ urls \in Batches
    /\ ignore_rev \in BOOLEAN
    /\ delay \in {0, MaxDelay}
    /\ most_recent = EmptyLedger
    /\ now = MaxDelay + 1
    /\ thr = NoCall
    /\ archive \in ArchiveTrees
    /\ dirs = DirsOf(archive)
    /\ writes = 0
    /\ scratch = {}
    /\ pc = "start"
    /\ idx = 0
    /\ num_ok = 0
    /\ outcome = [k \in 1..Len(urls) |-> "Pending"]
    /\ remote_rev = "none"
    /\ ret = NoReturn
    /\ cmdlog = <<>>
    /\ error = "none"
    /\ main = NoMain
    /\ rep = NoRep
    /\ pure = NoPure

----------------------------------------------------------------------------
(* Bundler.bundle_all / Bundler.bundle / Bundler.check_bundle_required *)

repo == urls[idx]

\* mutant: every locator is bundled to the archive path of the first
bundle_path_of_first == make_bundle_path(urls[1])

bundle_path == make_bundle_path(repo)

Exists(p) == p \in DOMAIN archive /\ archive[p] # NoFile

\* mutant: only the first locator of the batch is resolved up front
FirstInvalidHeadOnly(batch) ==
    IF batch # <<>> /\ ~RepositoryOK(batch[1]) THEN 1 ELSE 0

\* mutant: no locator is resolved up front
FirstInvalidNone(batch) == 0

\* index of the first locator of the batch that Repository rejects, 0 if none:
\* list(map(Repository, repo_urls)) raises there
FirstInvalid(batch) ==
    IF \A k \in 1..Len(batch) : RepositoryOK(batch[k]) THEN 0
    ELSE CHOOSE k \in 1..Len(batch) :
            /\ ~RepositoryOK(batch[k])
            /\ \A j \in 1..(k - 1) : RepositoryOK(batch[j])

\* mutant: the loop steps over every other locator
NextLocatorSkipping ==
    /\ idx' = idx + 2
    /\ pc' = IF idx + 2 > Len(urls) THEN "done" ELSE "throttle"

\* the for loop moves to the next locator, or bundle_all returns num_ok
NextLocator ==
    /\ idx' = idx + 1
    /\ pc' = IF idx + 1 > Len(urls) THEN "done" ELSE "throttle"

\* bundle_all, lines 251-252: resolve every locator up front
Resolve ==
    /\ pc = "start"
    /\ IF FirstInvalid(urls) # 0
       THEN /\ pc' = "raised"
            /\ error' = "LocatorError"
            /\ idx' = idx
       ELSE /\ NextLocator
            /\ error' = error
    /\ UNCHANGED <<main, rep, pure, urls, ignore_rev, delay, most_recent, now, thr, archive, dirs,
                   writes, scratch, num_ok, outcome, remote_rev, ret, cmdlog>>

\* mutant: throttle is called without a category
ThrottleKeyDefault(url) == ""

\* bundle_all, line 254: the category handed to throttle is repo.host
ThrottleKey(url) == RepoHost(url)

\* bundle_all, line 254: self.config.throttler.throttle(repo.host); the call
\* is logged with its category in the place of a result
Throttle ==
    /\ pc = "throttle"
    /\ throttle(ThrottleKey(repo), 0)
    /\ cmdlog' = Append(cmdlog, <<"throttle", idx, ThrottleKey(repo)>>)
    /\ pc' = "clone"
    /\ UNCHANGED <<main, rep, pure, urls, ignore_rev, delay, archive, dirs, writes, scratch, idx,
                   num_ok, outcome, remote_rev, ret, error>>

\* Scratch directories, as paths below self.tempdir.  The names tempfile
\* draws are random; one name stands for each directory, no two of a kind
\* existing at a time.
\* bundle, line 229: TemporaryDirectory(prefix='clone-dest-parent', dir=self.tempdir)
ParentDir == <<"clone-dest-parent">>
\* bundle, line 230: mkdtemp(prefix='clone-dest', dir=clone_dest_dir_parent)
CloneDir == Append(ParentDir, "clone-dest")
\* read_git_latest_commit_from_bundle, line 203: TemporaryDirectory(dir=tempdir),
\* tempdir being clone_dest_dir_parent (line 224)
ProbeDir == Append(ParentDir, "tmp")

\* directory d is top or lies below it
Under(d, top) == Len(d) >= Len(top) /\ SubSeq(d, 1, Len(top)) = top

\* mutant: the clone directory is made outside the parent scratch directory
\* and outlives it
ScratchLeakClone(s) == s \cap {CloneDir}

\* bundle, line 229: leaving the with block removes the parent scratch
\* directory and all it holds (the clone directory of line 230, the probe's
\* temporary directory of line 203)
ScratchAfterExit(s) == { d \in s : ~Under(d, ParentDir) }

\* mutant: the probe's temporary directory is left to the parent's removal
ProbeExitKeeps(s) == s

\* read_git_latest_commit_from_bundle, line 203: leaving the with block,
\* by return or by exception, removes the temporary directory
ProbeExit(s) == { d \in s : ~Under(d, ProbeDir) }

\* mutant: bundle returns None when it skips, only written bundles count
CountedWrittenOnly(result) == result = "Succeeded"

\* mutant: every locator is counted, whatever bundle returned
CountedAlways(result) == TRUE

\* bundle_all, line 255: bundle returns the bundle path (a non-empty string,
\* true) when the locator ends Succeeded or Skipped, None when it ends Failed
Counted(result) == result \in {"Succeeded", "Skipped"}

\* bundle returned None or a path: the scratch area is released, the result
\* is counted, the loop goes on
Finish(result, value) ==
    /\ scratch' = ScratchAfterExit(scratch)
    /\ outcome' = [outcome EXCEPT ![idx] = result]
    /\ ret' = value
    /\ num_ok' = IF Counted(result) THEN num_ok + 1 ELSE num_ok
    /\ remote_rev' = "none"
    /\ NextLocator

\* an exception leaves bundle (the with blocks release the scratch area) and
\* then bundle_all, which has no handler
Raise(e) ==
    /\ scratch' = ScratchAfterExit(scratch)
    /\ pc' = "raised"
    /\ error' = e
    /\ remote_rev' = "none"
    /\ UNCHANGED <<idx, num_ok, outcome, ret>>

\* an exception leaves the with block of read_git_latest_commit_from_bundle
\* (line 203), which removes the temporary directory s holds; the exception
\* is then on its way out of bundle
ProbeRaise(e, s) ==
    /\ scratch' = ProbeExit(s)
    /\ pc' = "unwind"
    /\ error' = e
    /\ UNCHANGED <<idx, num_ok, outcome, remote_rev, ret>>

\* how an exit code is logged
ExitResult(rc) == IF rc = 0 THEN "ok" ELSE "nonzero"

\* mutant: the exit code of the clone is not looked at
CloneFailedNever(rc) == FALSE

\* bundle, line 233: proc.returncode != 0
CloneFailed(rc) == rc # 0

\* bundle, lines 229-237: scratch directories, then git clone --mirror
\* (clone_mirrored, not clean: the result of git config is not looked at)
MirrorClone ==
    /\ pc = "clone"
    /\ \E rc \in {0, 1} :
         IF CloneFailed(rc)
         THEN /\ cmdlog' = Append(cmdlog, <<"clone", idx, ExitResult(rc)>>)
              /\ Finish("Failed", None)
              /\ error' = error
         ELSE /\ cmdlog' = cmdlog \o << <<"clone", idx, ExitResult(rc)>>, <<"config", idx, "ignored">> >>
              /\ scratch' = {ParentDir, CloneDir}
              /\ pc' = "check"
              /\ UNCHANGED <<idx, num_ok, outcome, remote_rev, ret, error>>
    /\ UNCHANGED <<main, rep, pure, urls, ignore_rev, delay, most_recent, now, thr, archive, dirs, writes>>

\* mutant: ignore_rev is not consulted
ShortCircuitNoForce(force, exists) == ~exists

\* mutant: the existence of the archive file is not looked at
ShortCircuitForceOnly(force, exists) == force

\* check_bundle_required, lines 221-222: the short circuit
ShortCircuit(force, exists) == force \/ ~exists

CheckRequired ==
    /\ pc = "check"
    /\ pc' = IF ShortCircuit(ignore_rev, Exists(bundle_path)) THEN "create" ELSE "probe_clone"
    /\ UNCHANGED <<main, rep, pure, urls, ignore_rev, delay, most_recent, now, thr, archive, dirs,
                   writes, scratch, idx, num_ok, outcome, remote_rev, ret, cmdlog, error>>

HeadResults == {"ok", "nonzero", "empty"}

\* mutant: only the exit code is looked at, empty output passes for a revision
HeadErrorExitOnly(res) == IF res = "nonzero" THEN "GitExitCodeException" ELSE "none"

\* read_git_latest_commit: the exception it raises on this result, or "none"
HeadError(res) ==
    CASE res = "nonzero" -> "GitExitCodeException"
      [] res = "empty"   -> "IndexError"
      [] OTHER           -> "none"

\* check_bundle_required, line 223: head of the fresh clone
ProbeCloneHead ==
    /\ pc = "probe_clone"
    /\ \E res \in HeadResults :
         /\ cmdlog' = Append(cmdlog, <<"head", idx, res>>)
         /\ IF HeadError(res) # "none"
            THEN Raise(HeadError(res))
            ELSE /\ remote_rev' = SrcHead(repo)
                 /\ pc' = "probe_materialize"
                 /\ UNCHANGED <<scratch, idx, num_ok, outcome, ret, error>>
    /\ UNCHANGED <<main, rep, pure, urls, ignore_rev, delay, most_recent, now, thr, archive, dirs, writes>>

\* read_git_latest_commit_from_bundle, lines 203-204: a temporary directory
\* inside the parent scratch directory, then clone_mirrored_clean of the bundle
ProbeMaterialize ==
    /\ pc = "probe_materialize"
    /\ \E rcClone \in {0, 1}, rcConfig \in {0, 1} :
         IF rcClone # 0
         THEN /\ cmdlog' = Append(cmdlog, <<"bundle-clone", idx, "nonzero">>)
              /\ ProbeRaise("GitExitCodeException", scratch \cup {ProbeDir})
         ELSE /\ cmdlog' = cmdlog \o << <<"bundle-clone", idx, "ok">>,
                                       <<"bundle-config", idx, IF rcConfig # 0 THEN "nonzero" ELSE "ok">> >>
              /\ IF rcConfig # 0
                 THEN ProbeRaise("GitExitCodeException", scratch \cup {ProbeDir})
                 ELSE /\ scratch' = scratch \cup {ProbeDir}
                      /\ pc' = "probe_bundle"
                      /\ UNCHANGED <<idx, num_ok, outcome, remote_rev, ret, error>>
    /\ UNCHANGED <<main, rep, pure, urls, ignore_rev, delay, most_recent, now, thr, archive, dirs, writes>>

\* mutant: the revisions are not compared, a bundle is always required
RequiredAlways(bundle_revision, remote_clone_revision) == TRUE

\* mutant: an archive that exists is never rewritten
RequiredNever(bundle_revision, remote_clone_revision) == FALSE

\* check_bundle_required, line 225
Required(bundle_revision, remote_clone_revision) == bundle_revision # remote_clone_revision

\* read_git_latest_commit_from_bundle, line 205: the head of the materialized
\* archive, the with block of line 203 left on the way out; then line 225
\* and the branch of bundle, line 238
ProbeBundleHead ==
    /\ pc = "probe_bundle"
    /\ \E res \in HeadResults :
         /\ cmdlog' = Append(cmdlog, <<"bundle-head", idx, res>>)
         /\ IF HeadError(res) # "none"
            THEN ProbeRaise(HeadError(res), scratch)
            ELSE /\ scratch' = ProbeExit(scratch)
                 /\ pc' = IF Required(archive[bundle_path].rev, remote_rev) THEN "create" ELSE "skip"
                 /\ UNCHANGED <<idx, num_ok, outcome, remote_rev, ret, error>>
    /\ UNCHANGED <<main, rep, pure, urls, ignore_rev, delay, most_recent, now, thr, archive, dirs, writes>>

\* bundle, lines 246-248: the archive is current, bundle returns its path
SkipBundle ==
    /\ pc = "skip"
    /\ Finish("Skipped", PathValue(bundle_path))
    /\ UNCHANGED <<main, rep, pure, urls, ignore_rev, delay, most_recent, now, thr, archive, dirs,
                   writes, cmdlog, error>>

\* the exception of the probe leaves the with block of bundle (line 229)
\* and bundle_all
Unwind ==
    /\ pc = "unwind"
    /\ Raise(error)
    /\ UNCHANGED <<main, rep, pure, urls, ignore_rev, delay, most_recent, now, thr, archive, dirs,
                   writes, cmdlog>>

\* mutant: git bundle create exits zero and leaves the file as it was
BundleWriteKeepsOld(old, rc, head, stamp) == old

\* what git bundle create leaves at the archive path: the new bundle on exit
\* code 0 (written with a fresh modification time), nothing new otherwise
BundleWrite(old, rc, head, stamp) ==
    IF rc = 0 THEN [rev |-> head, mtime |-> stamp] ELSE old

\* mutant: the exit code of git bundle create is not looked at
CreateResultIgnoresExit(rc) == "Succeeded"

\* bundle, lines 242-248: None on a non-zero exit code, the bundle path otherwise
CreateResult(rc) == IF rc = 0 THEN "Succeeded" ELSE "Failed"

\* mutant: bundle returns the path whatever git bundle create exited with
CreateReturnPathAlways(rc, p) == PathValue(p)

\* bundle, lines 242-248: what bundle returns after git bundle create
CreateReturn(rc, p) == IF rc = 0 THEN PathValue(p) ELSE None

\* bundle, lines 239-248: makedirs, then git bundle create
BundleCreate ==
    /\ pc = "create"
    /\ dirs' = dirs \cup MakeDirs(BundleDir(bundle_path))
    /\ \E rc \in {0, 1} :
         /\ cmdlog' = Append(cmdlog, <<"bundle-create", idx, ExitResult(rc)>>)
         /\ archive' = [archive EXCEPT ![bundle_path] =
                            BundleWrite(archive[bundle_path], rc, SrcHead(repo), writes + 1)]
         /\ writes' = IF rc = 0 THEN writes + 1 ELSE writes
         /\ Finish(CreateResult(rc), CreateReturn(rc, bundle_path))
    /\ UNCHANGED <<main, rep, pure, urls, ignore_rev, delay, most_recent, now, thr, error>>

Next ==
    \/ Resolve
    \/ Throttle
    \/ MirrorClone
    \/ CheckRequired
    \/ ProbeCloneHead
    \/ ProbeMaterialize
    \/ ProbeBundleHead
    \/ SkipBundle
    \/ Unwind
    \/ BundleCreate

Spec == Init /\ [][Next]_vars

\* the same program under the proviso that every external command and every
\* throttle sleep comes back: the interpreter then always takes the next step
\* of bundle_all while there is one
SpecLive == Init /\ [][Next]_vars /\ WF_vars(Next)

----------------------------------------------------------------------------
(* A Throttler on its own: any keys, in any order, the clock advancing       *)
(* between the calls                                                         *)

ThrottleKeys == Categories \cup {""}

\* no clock tick is taken past this value
TickCap == MaxClock0 + MaxCalls * MaxDelay

\* Throttler(delay_seconds), delay >= 0, at any clock value
InitThrottle ==
    /\ delay \in 0..MaxDelay
    /\ now \in 0..MaxClock0
    /\ most_recent = EmptyLedger
    /\ thr = NoCall
    /\ urls = <<>>
    /\ ignore_rev = FALSE
    /\ archive = [p \in BundlePaths |-> NoFile]
    /\ dirs = {}
    /\ writes = 0
    /\ scratch = {}
    /\ pc = "throttler"
    /\ idx = 0
    /\ num_ok = 0
    /\ outcome = <<>>
    /\ remote_rev = "none"
    /\ ret = NoReturn
    /\ cmdlog = <<>>
    /\ error = "none"
    /\ main = NoMain
    /\ rep = NoRep
    /\ pure = NoPure

ThrottleCall ==
    /\ thr.calls < MaxCalls
    /\ \E c \in ThrottleKeys, over \in 0..MaxOversleep : throttle(c, over)
    /\ UNCHANGED delay
    /\ UNCHANGED orchVars

\* time passes between two calls; the clock does not go backwards
Tick ==
    /\ now < TickCap
    /\ now' = now + 1
    /\ UNCHANGED <<delay, most_recent, thr>>
    /\ UNCHANGED orchVars

NextThrottle == ThrottleCall \/ Tick

SpecThrottle == InitThrottle /\ [][NextThrottle]_vars

----------------------------------------------------------------------------
(* main(): arguments, version gate, index file, Bundler, exit status *)

ERR_USAGE == 1
ERR_BUNDLE_FAIL == 2
_GIT_VERSION_MAJOR_MIN == 2
_GIT_VERSION_MINOR_MIN == 3
_DEFAULT_THROTTLER_DELAY_SECONDS == 1

\* what read_git_version may return; <<>> stands for a git --version that
\* exits non-zero or prints something unexpected (read_git_version raises)
VersionReads == { <<>>, <<1, 7, 0>>, <<2, 1, 29>>, <<2, 3, 0>>, <<2, 11>>, <<3, 0>> }

\* mutant: only the major number is compared
check_git_version_major(v) == ~(v[1] < _GIT_VERSION_MAJOR_MIN)

\* check_git_version: TRUE when it returns, FALSE when it raises
check_git_version(v) ==
    /\ ~(v[1] < _GIT_VERSION_MAJOR_MIN)
    /\ ~(v[1] = _GIT_VERSION_MAJOR_MIN /\ v[2] < _GIT_VERSION_MINOR_MIN)

\* a line of the index file: its text, character by character (" " stands
\* for any whitespace character, "u" for any other character but '#'), and
\* the locator the text spells when it is one
NoUrl == [scheme |-> "", username |-> "", hostname |-> "", port |-> NoPort, path |-> <<>>]
UrlLine(u) == [text |-> <<"u">>, url |-> u]
BlankLine == [text |-> <<" ">>, url |-> NoUrl]
CommentLine == [text |-> <<"#", "u">>, url |-> NoUrl]

IndexLines == { UrlLine(u) : u \in Locators } \cup {BlankLine, CommentLine}

IndexFiles == SeqsUpTo(IndexLines, MaxBatch)

\* str.lstrip() and str.strip()
RECURSIVE lstrip_ws(_)
lstrip_ws(text) ==
    IF text # <<>> /\ text[1] = " " THEN lstrip_ws(Tail(text)) ELSE text

RECURSIVE rstrip_ws(_)
rstrip_ws(text) ==
    IF text # <<>> /\ text[Len(text)] = " "
    THEN rstrip_ws(SubSeq(text, 1, Len(text) - 1))
    ELSE text

strip_ws(text) == rstrip_ws(lstrip_ws(text))

\* clean_index_urls, line 287: len(url.strip()) > 0
NotBlankLine(line) == Len(strip_ws(line.text)) > 0

\* mutant: a line is a comment only when '#' is its very first character
NotCommentLineUnstripped(line) == ~(line.text # <<>> /\ line.text[1] = "#")

\* clean_index_urls, line 288: not url.lstrip().startswith('#')
NotCommentLine(line) ==
    ~(lstrip_ws(line.text) # <<>> /\ lstrip_ws(line.text)[1] = "#")

\* clean_index_urls, lines 286-289: the two filters, one after the other
clean_index_urls(lines) == SelectSeq(SelectSeq(lines, NotBlankLine), NotCommentLine)

\* the delay of the Throttler of the BundleConfig that main builds on line
\* 322: BundleConfig(ignore_rev=args.ignore_rev) keeps the default throttler
\* of line 47; args.delay is not handed on
BundleConfigDelay(args_delay) == _DEFAULT_THROTTLER_DELAY_SECONDS

\* archive trees in which every path is in the same condition
UniformTrees ==
    { [p \in BundlePaths |-> f] : f \in {NoFile} \cup { [rev |-> r, mtime |-> 0] : r \in Revs } }

\* main is called; no Bundler exists yet
InitMain ==
    /\ main \in [pc : {"args"}, delay : 0..MaxDelay, ignore_rev : BOOLEAN,
                 index : IndexFiles, status : {-1}, version : {"unchecked"}]
    /\ rep = NoRep
    /\ pure = NoPure
    /\ urls = <<>>
    /\ ignore_rev = FALSE
    /\ delay = 0
    /\ most_recent = EmptyLedger
    /\ now = MaxDelay + 1
    /\ thr = NoCall
    /\ archive \in UniformTrees
    /\ dirs = DirsOf(archive)
    /\ writes = 0
    /\ scratch = {}
    /\ pc = "unborn"
    /\ idx = 0
    /\ num_ok = 0
    /\ outcome = <<>>
    /\ remote_rev = "none"
    /\ ret = NoReturn
    /\ cmdlog = <<>>
    /\ error = "none"

mainFrame == <<rep, pure, urls, ignore_rev, delay, most_recent, now, thr, archive, dirs,
               writes, scratch, pc, idx, num_ok, outcome, remote_rev, ret, cmdlog, error>>

\* main, lines 305-312: the default of --delay is read from the environment;
\* a value that is no number ends main with ERR_USAGE
MainParseArgs ==
    /\ main.pc = "args"
    /\ \E envOK \in BOOLEAN :
         main' = IF envOK THEN [main EXCEPT !.pc = "version"]
                 ELSE [main EXCEPT !.pc = "returned", !.status = ERR_USAGE]
    /\ UNCHANGED mainFrame

\* what became of the version check for a read v
VersionVerdict(v) ==
    IF v = <<>> THEN "unreadable" ELSE IF check_git_version(v) THEN "ok" ELSE "old"

\* mutant: main goes on whatever the version check says
VersionPassesAlways(v) == TRUE

\* line 314 returns: neither read_git_version nor check_git_version raised
VersionPasses(v) == v # <<>> /\ check_git_version(v)

\* main, line 314: check_git_version(read_git_version()); main.version keeps
\* what became of the check
MainCheckVersion ==
    /\ main.pc = "version"
    /\ \E v \in VersionReads :
         main' = IF VersionPasses(v)
                 THEN [main EXCEPT !.pc = "index", !.version = VersionVerdict(v)]
                 ELSE [main EXCEPT !.pc = "raised", !.version = VersionVerdict(v)]
    /\ UNCHANGED mainFrame

\* main, lines 315-323: the index is read and cleaned; an empty index ends
\* main with 1, otherwise the BundleConfig and the Bundler are built
MainReadIndex ==
    /\ main.pc = "index"
    /\ LET cleaned == clean_index_urls(main.index)
       IN IF cleaned = <<>>
          THEN /\ main' = [main EXCEPT !.pc = "returned", !.status = 1]
               /\ UNCHANGED <<urls, ignore_rev, delay, pc, outcome>>
          ELSE /\ main' = [main EXCEPT !.pc = "bundle_all"]
               /\ urls' = [k \in 1..Len(cleaned) |-> cleaned[k].url]
               /\ outcome' = [k \in 1..Len(cleaned) |-> "Pending"]
               /\ ignore_rev' = main.ignore_rev
               /\ delay' = BundleConfigDelay(main.delay)
               /\ pc' = "start"
    /\ UNCHANGED <<rep, pure, most_recent, now, thr, archive, dirs, writes, scratch, idx,
                   num_ok, remote_rev, ret, cmdlog, error>>

\* the status main returns after bundle_all, lines 325-330
ExitStatus(ok, total) == IF ok = 0 THEN ERR_BUNDLE_FAIL ELSE 0

\* main, lines 324-330: bundle_all has returned num_ok, or raised
MainReturn ==
    /\ main.pc = "bundle_all"
    /\ pc \in {"done", "raised"}
    /\ main' = IF pc = "raised" THEN [main EXCEPT !.pc = "raised"]
               ELSE [main EXCEPT !.pc = "returned", !.status = ExitStatus(num_ok, Len(urls))]
    /\ UNCHANGED mainFrame

NextMain ==
    \/ MainParseArgs
    \/ MainCheckVersion
    \/ MainReadIndex
    \/ Resolve
    \/ Throttle
    \/ MirrorClone
    \/ CheckRequired
    \/ ProbeCloneHead
    \/ ProbeMaterialize
    \/ ProbeBundleHead
    \/ SkipBundle
    \/ Unwind
    \/ BundleCreate
    \/ MainReturn

SpecMain == InitMain /\ [][NextMain]_vars

----------------------------------------------------------------------------
(* Repository alone: construction from a locator and make_bundle_path.     *)
(* Path names are strings of characters here; a name such as "ns" stands   *)
(* for a run of characters holding no '/', no '.' and no escape.           *)

\* the path segments a locator may hold (the text between two '/')
Segments ==
    { <<>>, <<"ns">>, <<"r1">>, <<"r1", ".bundle">>, <<".", ".">>,
      <<"%2E", "%2E">>, <<"a", "%2F", "b">>, <<"c", "+", "+">> }

\* locators as urlparse splits them; path holds the segments that follow
\* the leading '/'; a bare filesystem path has the scheme ""
UrlSpace ==
    [scheme : {"https", "file", "ftp", ""}, username : {""},
     hostname : {"hostA", "", FILESYSTEM_DIR_BASENAME},
     port : {NoPort, 443}, path : SeqsUpTo(Segments, MaxSegs)]

\* parent directories handed to make_bundle_path
Roots == { <<"/", "t">>, <<"/", "t", "/">>, <<"/", "u">> }

\* '/'.join(parts)
RECURSIVE JoinSlash(_)
JoinSlash(parts) ==
    IF parts = <<>> THEN <<>>
    ELSE IF Len(parts) = 1 THEN parts[1]
    ELSE parts[1] \o <<"/">> \o JoinSlash(Tail(parts))

\* posixpath.join on two names
os_path_join2(a, b) ==
    IF b # <<>> /\ b[1] = "/" THEN b
    ELSE IF a = <<>> \/ a[Len(a)] = "/" THEN a \o b
    ELSE a \o <<"/">> \o b

\* os.path.join(a, *p)
RECURSIVE os_path_join(_)
os_path_join(names) ==
    IF Len(names) = 1 THEN names[1]
    ELSE os_path_join(<<os_path_join2(names[1], names[2])>> \o SubSeq(names, 3, Len(names)))

\* mutant: only the last directory of the prefix is kept
decoded_path_prefix_last(url) ==
    decoded_path_prefix_parts(url)[Len(decoded_path_prefix_parts(url))]

\* Repository.decoded_path_prefix, line 92
decoded_path_prefix(url) == JoinSlash(decoded_path_prefix_parts(url))

\* mutant: the bundle is named by the encoded path segments
make_bundle_path_raw(parent, url) ==
    os_path_join(<< parent, <<RepoHost(url)>>, JoinSlash(path_prefix_parts(url)),
                    repo_name(url) \o <<".bundle">> >>)

\* Repository.make_bundle_path(parent), lines 115-119, as a path name
make_bundle_path_in(parent, url) ==
    os_path_join(<< parent, <<RepoHost(url)>>, decoded_path_prefix(url),
                    decoded_repo_name(url) \o <<".bundle">> >>)

\* result.path of urlparse: the text from the '/' that ends the host
RawPath(url) == IF url.path = <<>> THEN <<>> ELSE <<"/">> \o JoinSlash(url.path)

\* Repository.get_repository_argument, lines 101-107: the decoded path of a
\* file locator, the locator as it was given otherwise
get_repository_argument(url) ==
    IF url.scheme = "file" THEN unquote_plus(RawPath(url)) ELSE url

\* mutant: a port in the locator is not looked at
RepositoryErrorPortIgnored(url) ==
    IF url.scheme \notin _SUPPORTED_SCHEMES THEN "AssertionError"
    ELSE IF ~(url.scheme = "file" \/ RepoHost(url) # "") THEN "AssertionError"
    ELSE IF ~check_no_file_separator_chars(decoded_path_prefix_parts(url)) THEN "ValueError"
    ELSE IF path_parts(url) = <<>> THEN "IndexError"
    ELSE IF ~check_no_file_separator_chars(<<decoded_repo_name(url)>>) THEN "ValueError"
    ELSE IF path_prefix_parts(url) = <<>> THEN "AssertionError"
    ELSE "none"

\* mutant: a source directly under the filesystem root is let through
RepositoryErrorLocalExempt(url) ==
    IF url.scheme \notin _SUPPORTED_SCHEMES THEN "AssertionError"
    ELSE IF url.port # NoPort THEN "AssertionError"
    ELSE IF ~(url.scheme = "file" \/ RepoHost(url) # "") THEN "AssertionError"
    ELSE IF ~check_no_file_separator_chars(decoded_path_prefix_parts(url)) THEN "ValueError"
    ELSE IF path_parts(url) = <<>> THEN "IndexError"
    ELSE IF ~check_no_file_separator_chars(<<decoded_repo_name(url)>>) THEN "ValueError"
    ELSE IF path_prefix_parts(url) = <<>> /\ url.scheme # "file" THEN "AssertionError"
    ELSE "none"

\* the exception Repository.__init__ raises, or "none"
RepositoryError(url) ==
    IF url.scheme \notin _SUPPORTED_SCHEMES THEN "AssertionError"
    ELSE IF url.port # NoPort THEN "AssertionError"
    ELSE IF ~(url.scheme = "file" \/ RepoHost(url) # "") THEN "AssertionError"
    ELSE IF ~check_no_file_separator_chars(decoded_path_prefix_parts(url)) THEN "ValueError"
    ELSE IF path_parts(url) = <<>> THEN "IndexError"
    ELSE IF ~check_no_file_separator_chars(<<decoded_repo_name(url)>>) THEN "ValueError"
    ELSE IF path_prefix_parts(url) = <<>> THEN "AssertionError"
    ELSE "none"

\* Repository(url) is about to be called
InitRepo ==
    /\ rep \in [state : {"new"}, url : UrlSpace, error : {"none"},
                root : {<<>>}, path : {<<>>}, calls : {0}, arg : {<<>>}]
    /\ main = NoMain
    /\ pure = NoPure
    /\ urls = <<>>
    /\ ignore_rev = FALSE
    /\ delay = 0
    /\ most_recent = EmptyLedger
    /\ now = 0
    /\ thr = NoCall
    /\ archive = [p \in BundlePaths |-> NoFile]
    /\ dirs = {}
    /\ writes = 0
    /\ scratch = {}
    /\ pc = "unborn"
    /\ idx = 0
    /\ num_ok = 0
    /\ outcome = <<>>
    /\ remote_rev = "none"
    /\ ret = NoReturn
    /\ cmdlog = <<>>
    /\ error = "none"

repFrame == <<main, pure, urls, ignore_rev, delay, most_recent, now, thr, archive, dirs,
              writes, scratch, pc, idx, num_ok, outcome, remote_rev, ret, cmdlog, error>>

\* Repository.__init__, lines 82-99
RepositoryInit ==
    /\ rep.state = "new"
    /\ rep' = IF RepositoryError(rep.url) = "none"
              THEN [rep EXCEPT !.state = "ok"]
              ELSE [rep EXCEPT !.state = "error", !.error = RepositoryError(rep.url)]
    /\ UNCHANGED repFrame

\* Repository.make_bundle_path(parent), lines 115-119, on a constructed
\* Repository; rep records the last call
MakeBundlePath ==
    /\ rep.state \in {"ok", "pathed"}
    /\ rep.calls < MaxPathCalls
    /\ \E parent \in Roots :
         rep' = [rep EXCEPT !.state = "pathed", !.root = parent,
                            !.path = make_bundle_path_in(parent, rep.url),
                            !.calls = @ + 1]
    /\ UNCHANGED repFrame

\* Repository.get_repository_argument(), lines 101-107, on a constructed
\* Repository; rep.arg holds the returned value as its one element
GetRepositoryArgument ==
    /\ rep.state \in {"ok", "pathed"}
    /\ rep.arg = <<>>
    /\ rep' = [rep EXCEPT !.arg = << get_repository_argument(rep.url) >>]
    /\ UNCHANGED repFrame

NextRepo ==
    \/ RepositoryInit
    \/ MakeBundlePath
    \/ GetRepositoryArgument

SpecRepo == InitRepo /\ [][NextRepo]_vars

----------------------------------------------------------------------------
(* Functions that keep no state, each called once on an input drawn from a *)
(* bounded set.                                                            *)

\* nothing else is going on: no Bundler, no main, no Repository
Idle ==
    /\ main = NoMain
    /\ rep = NoRep
    /\ urls = <<>>
    /\ ignore_rev = FALSE
    /\ delay = 0
    /\ most_recent = EmptyLedger
    /\ now = 0
    /\ thr = NoCall
    /\ archive = [p \in BundlePaths |-> NoFile]
    /\ dirs = {}
    /\ writes = 0
    /\ scratch = {}
    /\ pc = "unborn"
    /\ idx = 0
    /\ num_ok = 0
    /\ outcome = <<>>
    /\ remote_rev = "none"
    /\ ret = NoReturn
    /\ cmdlog = <<>>
    /\ error = "none"

pureFrame == <<main, rep, urls, ignore_rev, delay, most_recent, now, thr, archive,
               dirs, writes, scratch, pc, idx, num_ok, outcome, remote_rev, ret, cmdlog,
               error>>

\* the tuples read_git_version can return: two or three numbers
VersionTuples ==
    { <<a, b>> : a, b \in 0..MaxVersionPart }
        \cup { <<a, b, c>> : a, b, c \in 0..MaxVersionPart }

\* check_git_version(git_version) is about to be called
InitVersion ==
    /\ pure \in [state : {"new"}, input : VersionTuples, result : {"none"}]
    /\ Idle

\* check_git_version, lines 273-283
CheckGitVersion ==
    /\ pure.state = "new"
    /\ pure' = [pure EXCEPT !.state = "done",
                            !.result = IF check_git_version(pure.input) THEN "returned"
                                       ELSE "GitVersionException"]
    /\ UNCHANGED pureFrame

NextVersion == CheckGitVersion

SpecVersion == InitVersion /\ [][NextVersion]_vars

\* BundleConfig.__init__, lines 46-47: the attributes set before the keyword
\* arguments are applied (the default throttler is Throttler(1.0))
ConfigDefaults == [ignore_rev |-> "False", throttler |-> "Throttler(1.0)"]

\* attributes every instance has from its class and from object, which
\* getattr finds as well
ClassAttributes == {"__doc__", "__class__"}

\* keyword names and values BundleConfig may be called with
KwargNames == {"ignore_rev", "throttler", "delay", "__doc__"}
KwargValues == {"True", "Throttler(0.0)", "x"}

\* keyword arguments in the order given, no name twice
Kwargs ==
    { kw \in SeqsUpTo(KwargNames \X KwargValues, MaxKwargs) :
        \A i, j \in 1..Len(kw) : i # j => kw[i][1] # kw[j][1] }

\* getattr(self, k) returns (TRUE) or raises AttributeError (FALSE)
HasAttribute(attrs, k) == k \in DOMAIN attrs \/ k \in ClassAttributes

\* setattr(self, k, v)
SetAttribute(attrs, k, v) ==
    [x \in (DOMAIN attrs) \cup {k} |-> IF x = k THEN v ELSE attrs[x]]

\* BundleConfig.__init__, lines 48-50: the loop over kwargs
RECURSIVE ApplyKwargs(_, _)
ApplyKwargs(attrs, kw) ==
    IF kw = <<>> THEN [error |-> "none", attrs |-> attrs]
    ELSE IF ~HasAttribute(attrs, kw[1][1]) THEN [error |-> "AttributeError", attrs |-> attrs]
    ELSE ApplyKwargs(SetAttribute(attrs, kw[1][1], kw[1][2]), Tail(kw))

\* BundleConfig(**kwargs) is about to be called
InitConfig ==
    /\ pure \in [state : {"new"}, input : Kwargs, result : {"none"}, attrs : {<<>>}]
    /\ Idle

\* BundleConfig.__init__, lines 44-50
BundleConfigInit ==
    /\ pure.state = "new"
    /\ LET r == ApplyKwargs(ConfigDefaults, pure.input)
       IN pure' = [pure EXCEPT !.state = "done",
                               !.result = IF r.error = "none" THEN "constructed" ELSE r.error,
                               !.attrs = r.attrs]
    /\ UNCHANGED pureFrame

NextConfig == BundleConfigInit

SpecConfig == InitConfig /\ [][NextConfig]_vars

\* the lines clean_index_urls may be given
TextLines == { [text |-> t, url |-> NoUrl] : t \in SeqsUpTo({" ", "#", "u"}, MaxLineLen) }

\* clean_index_urls(urls) is about to be called
InitIndex ==
    /\ pure \in [state : {"new"}, input : SeqsUpTo(TextLines, MaxLines), result : {<<>>}]
    /\ Idle

\* clean_index_urls, lines 286-289
CleanIndexUrls ==
    /\ pure.state = "new"
    /\ pure' = [pure EXCEPT !.state = "done", !.result = clean_index_urls(pure.input)]
    /\ UNCHANGED pureFrame

NextIndex == CleanIndexUrls

SpecIndex == InitIndex /\ [][NextIndex]_vars

----------------------------------------------------------------------------
(* Properties *)

Indices == 1..Len(urls)

\* command cmd was run for locator k and ended with result res
Ran(cmd, k, res) == \E n \in 1..Len(cmdlog) : cmdlog[n] = <<cmd, k, res>>

\* command cmd was run for locator k
Invoked(cmd, k) == \E n \in 1..Len(cmdlog) : cmdlog[n][1] = cmd /\ cmdlog[n][2] = k

HasMalformed == \E k \in Indices : urls[k] \notin ValidLocators

\* bundle is at work on locator idx
InBundle == pc \in {"clone", "check", "probe_clone", "probe_materialize", "probe_bundle",
                    "skip", "unwind", "create"}

\* the archive of the current locator exists and its head is the head of the source
ArchiveCurrent == Exists(bundle_path) /\ archive[bundle_path].rev = SrcHead(repo)

\* C1. Idempotence: while bundle works on a locator whose archive exists with
\* the head revision of the source and ignore_rev is false, no step leads to
\* the bundle-create command and no step changes the archive tree, its
\* modification times or the number of writes made.
C1_Idempotent ==
    [][ (InBundle /\ ~ignore_rev /\ ArchiveCurrent)
          => /\ pc # "create"
             /\ pc' # "create"
             /\ archive' = archive
             /\ writes' = writes
             /\ dirs' = dirs ]_vars

\* a second run on the same locator right after a successful one was skipped:
\* one write in all
C1_Witness ==
    /\ pc = "done"
    /\ ~ignore_rev
    /\ \E j \in Indices : /\ j > 1
                          /\ urls[j] = urls[j - 1]
                          /\ outcome[j - 1] = "Succeeded"
                          /\ outcome[j] = "Skipped"
                          /\ ~Invoked("bundle-create", j)
                          /\ archive[make_bundle_path(urls[j])].mtime = writes

\* C2. Forced refresh: with ignore_rev set, bundle-create has been invoked for
\* every locator that got past its mirror clone and reached a terminal state,
\* and no locator is Skipped.
C2_ForcedRefresh ==
    ignore_rev =>
        \A k \in Indices :
            /\ outcome[k] # "Skipped"
            /\ (Ran("clone", k, "ok") /\ outcome[k] # "Pending") => Invoked("bundle-create", k)

\* forced, and the second of two runs on the same locator wrote the archive
\* again although the first had just written the same head
C2_Witness ==
    /\ ignore_rev
    /\ \E j \in Indices : /\ j > 1
                          /\ urls[j] = urls[j - 1]
                          /\ outcome[j - 1] = "Succeeded"
                          /\ outcome[j] = "Succeeded"
                          /\ archive[make_bundle_path(urls[j])].mtime = writes
                          /\ writes >= 2

CloneFailures == { k \in Indices : Ran("clone", k, "nonzero") }

\* C3. Partial failure aggregation: when bundle_all has returned and every
\* locator either failed at its mirror clone or ended Succeeded or Skipped,
\* the count returned is N - K, K the number of locators whose clone failed.
C3_PartialFailure ==
    (/\ pc = "done"
     /\ \A k \in Indices : k \in CloneFailures \/ outcome[k] \in {"Succeeded", "Skipped"})
        => num_ok = Len(urls) - Cardinality(CloneFailures)

C3_Witness ==
    /\ pc = "done"
    /\ Len(urls) = MaxBatch
    /\ Cardinality(CloneFailures) = 1
    /\ \A k \in Indices : k \in CloneFailures \/ outcome[k] \in {"Succeeded", "Skipped"}
    /\ \E k \in Indices : outcome[k] = "Skipped"
    /\ num_ok = MaxBatch - 1

\* C4. No external-command failure leaves the loop: whenever a command has
\* exited non-zero for a locator, bundle_all has not raised, and the locator
\* is Failed once bundle is done with it.
C4_NoFailurePropagates ==
    \A n \in 1..Len(cmdlog) :
        cmdlog[n][3] = "nonzero"
            => /\ pc # "raised"
               /\ (idx # cmdlog[n][2] => outcome[cmdlog[n][2]] = "Failed")

\* C5. Fail fast: in every state of a run on a batch that holds a malformed
\* locator, no throttle call has been made, no external command has been run,
\* no scratch directory exists and the archive tree is as it was.
C5_FailFast ==
    HasMalformed =>
        /\ thr.calls = 0
        /\ most_recent = EmptyLedger
        /\ cmdlog = <<>>
        /\ scratch = {}
        /\ writes = 0
        /\ dirs = DirsOf(archive)
        /\ \A p \in DOMAIN archive : archive[p].mtime <= 0

\* bundle_all raised on a batch whose last locator is the malformed one
C5_Witness ==
    /\ pc = "raised"
    /\ error = "LocatorError"
    /\ Len(urls) = MaxBatch
    /\ \A k \in 1..(MaxBatch - 1) : RepositoryOK(urls[k])
    /\ ~RepositoryOK(urls[MaxBatch])
    /\ thr.calls = 0

\* C6 as stated: when the run is over, it was not aborted, a malformed locator
\* counts as Failed and every other locator has been processed.
C6_ParseFailureIsLocal ==
    (pc \in {"done", "raised"} /\ HasMalformed)
        => /\ pc = "done"
           /\ \A k \in Indices :
                IF RepositoryOK(urls[k]) THEN outcome[k] # "Pending" ELSE outcome[k] = "Failed"

\* C6 amended. A locator that fails to parse aborts the whole batch: once
\* resolution is over bundle_all has raised the locator's error, and no locator
\* of the batch, malformed or not, is processed or counted.
C6_ParseFailureAborts ==
    (HasMalformed /\ pc # "start")
        => /\ pc = "raised"
           /\ error = "LocatorError"
           /\ idx = 0
           /\ num_ok = 0
           /\ \A k \in Indices : outcome[k] = "Pending"

\* aborted although the first locators of the batch are well formed
C6_Witness ==
    /\ pc = "raised"
    /\ Len(urls) >= 2
    /\ RepositoryOK(urls[1])
    /\ HasMalformed
    /\ outcome[1] = "Pending"

\* C7. Minimum interval: after a throttle call with a key that was in the
\* ledger, with delay d > 0, the time now stored for the key is at least d
\* later than the time that was stored for it.
C7_MinInterval ==
    (thr.calls > 0 /\ ~thr.first /\ delay > 0)
        => most_recent[thr.key] - thr.last >= delay

\* a repeated key that had to sleep
C7_Witness ==
    /\ thr.calls >= 2
    /\ ~thr.first
    /\ delay > 0
    /\ thr.slept > 0
    /\ most_recent[thr.key] - thr.last >= delay

\* C8. The first throttle call for a key does not sleep.
C8_FirstCallNeverSleeps == (thr.calls > 0 /\ thr.first) => thr.slept = 0

\* C9. Frame of throttle: a step never removes a ledger entry and changes no
\* entry but that of the key throttled; how long a call sleeps is determined
\* by the entry of its own key, the clock and the delay.
C9_KeysIndependent ==
    [][ /\ \A c \in DOMAIN most_recent :
              /\ c \in DOMAIN most_recent'
              /\ (thr'.calls = thr.calls \/ c # thr'.key) => most_recent'[c] = most_recent[c]
        /\ thr'.calls # thr.calls
              => /\ DOMAIN most_recent' = (DOMAIN most_recent) \cup {thr'.key}
                 /\ thr'.slept = SleepDuration(now - LedgerGet(most_recent, thr'.key), delay) ]_vars

\* a call did not sleep although another key had been granted a slot less
\* than the delay before
C9_Witness ==
    /\ thr.calls >= 2
    /\ delay > 0
    /\ \E c \in DOMAIN most_recent : c # thr.key /\ thr.entry - most_recent[c] < delay
    /\ thr.slept = 0

\* C10. After a throttle call the time stored for its key is the clock value
\* read when the call ended, at least the sleep later than the value read at
\* entry, whether the call slept or not.
C10_GrantAfterSleep ==
    thr.calls > 0
        => /\ most_recent[thr.key] = thr.exit
           /\ thr.exit >= thr.entry + thr.slept

\* the call slept, and what is stored is later than the clock at entry
C10_Witness ==
    /\ thr.calls > 0
    /\ thr.slept > 0
    /\ most_recent[thr.key] >= thr.entry + thr.slept
    /\ most_recent[thr.key] # thr.entry

\* C11. The delay given by the caller is the delay of the Throttler that
\* bundle_all uses: once main has built the Bundler, the throttler's delay is
\* args.delay.
C11_CallerDelayUsed ==
    main.pc = "bundle_all" => delay = main.delay

\* the step runs a command for locator idx that is logged as <<cmd, idx, res>>
StepRuns(cmd, res) ==
    /\ Len(cmdlog') > Len(cmdlog)
    /\ cmdlog'[Len(cmdlog) + 1] = <<cmd, idx, res>>

\* the commands the step adds to the log
NewCommands == { cmdlog'[n] : n \in (Len(cmdlog) + 1)..Len(cmdlog') }

\* C12. A mirror clone that exits non-zero ends the locator Failed without
\* counting it, and the step leaves the archive tree as it was: files,
\* modification times, directories; bundle goes on with the next locator, and
\* no later step runs a command (probe, bundle-create) for that locator.
C12_CloneFailureWritesNothing ==
    [][ /\ (pc = "clone" /\ StepRuns("clone", "nonzero"))
            => /\ outcome'[idx] = "Failed"
               /\ num_ok' = num_ok
               /\ archive' = archive
               /\ dirs' = dirs
               /\ writes' = writes
               /\ NewCommands = { <<"clone", idx, "nonzero">> }
               /\ idx' = idx + 1
        /\ \A k \in CloneFailures : \A c \in NewCommands : c[2] # k ]_vars

\* the run is over; the clone of one locator failed where no archive and no
\* directory existed, and none exists now; the clone of another failed and
\* the archive it had is as it was
C12_Witness ==
    /\ pc = "done"
    /\ \E k \in CloneFailures :
          /\ outcome[k] = "Failed"
          /\ ~Exists(make_bundle_path(urls[k]))
          /\ BundleDir(make_bundle_path(urls[k])) \notin dirs
    /\ \E k \in CloneFailures :
          /\ outcome[k] = "Failed"
          /\ archive[make_bundle_path(urls[k])] = [rev |-> "c1", mtime |-> 0]

\* C13. A bundle-create that exits non-zero ends the locator Failed, the
\* count is not incremented, and the step leaves every archive file, that of
\* the locator included, as it was.
C13_CreateFailureKeepsArchive ==
    [][ (pc = "create" /\ StepRuns("bundle-create", "nonzero"))
            => /\ outcome'[idx] = "Failed"
               /\ num_ok' = num_ok
               /\ archive' = archive
               /\ writes' = writes ]_vars

\* bundle-create failed for a locator whose stale archive is still there
C13_Witness ==
    \E k \in Indices :
        /\ Ran("bundle-create", k, "nonzero")
        /\ outcome[k] = "Failed"
        /\ archive[make_bundle_path(urls[k])] = [rev |-> "c1", mtime |-> 0]
        /\ num_ok = 0
        /\ k = Len(urls)

Ended(result) == { k \in Indices : outcome[k] = result }

\* C14. Skipped counts as success: the counter of bundle_all is always the
\* number of locators that ended Succeeded plus the number that ended
\* Skipped, so this is the count it returns.
C14_SkippedCounted ==
    num_ok = Cardinality(Ended("Succeeded")) + Cardinality(Ended("Skipped"))

\* returned, with a Skipped, a Succeeded and a Failed locator in the batch
C14_Witness ==
    /\ pc = "done"
    /\ Ended("Skipped") # {}
    /\ Ended("Succeeded") # {}
    /\ Ended("Failed") # {}
    /\ num_ok = 2

\* C15. Scratch cleanup: whenever bundle is not at work (it has returned, or
\* raised, or was not called yet) no scratch directory exists.
C15_ScratchRemoved == ~InBundle => scratch = {}

\* the probe raised after the archive had been materialized in the scratch
\* area, and nothing is left of it
C15_Witness ==
    /\ pc = "raised"
    /\ \E k \in Indices : Ran("bundle-clone", k, "ok") /\ Ran("bundle-head", k, "nonzero")
    /\ scratch = {}

----------------------------------------------------------------------------
(* Properties of Repository (SpecRepo) *)

\* Repository(rep.url) has returned or raised
Constructed == rep.state \in {"ok", "pathed", "error"}

\* Repository(rep.url) has returned
Accepted == rep.state \in {"ok", "pathed"}

\* a segment of the locator's path decodes to text that holds '/'
SegmentEscapes(url) ==
    \E k \in 1..Len(url.path) : HasSeparator(unquote_plus(url.path[k]))

\* C16. Escaping rejection: once Repository has been called on a locator
\* with a namespace or name segment that percent-decodes to text holding
\* '/', the call has raised; no such locator is ever accepted.
C16_EscapeRejected ==
    Constructed /\ SegmentEscapes(rep.url) => rep.state = "error"

\* a locator that is well formed but for an encoded '/' has been refused
\* for that reason
C16_Witness ==
    /\ rep.state = "error"
    /\ rep.error = "ValueError"
    /\ SegmentEscapes(rep.url)
    /\ rep.url.scheme = "https" /\ rep.url.hostname = "hostA" /\ rep.url.port = NoPort

\* index of the first '/' of s, Len(s) + 1 when there is none
FirstSlash(s) ==
    IF \E k \in 1..Len(s) : s[k] = "/"
    THEN CHOOSE k \in 1..Len(s) : s[k] = "/" /\ \A j \in 1..(k - 1) : s[j] # "/"
    ELSE Len(s) + 1

\* the components of a path name: the non-empty texts between its '/'
RECURSIVE Components(_)
Components(s) ==
    IF s = <<>> THEN <<>>
    ELSE LET k == FirstSlash(s)
             head == SubSeq(s, 1, k - 1)
         IN (IF head = <<>> THEN <<>> ELSE <<head>>) \o Components(SubSeq(s, k + 1, Len(s)))

DotDot == <<".", ".">>

\* the directory chain an absolute path name leads through, '..' stepping
\* to the parent (the parent of the top directory being itself)
RECURSIVE Walk(_, _)
Walk(comps, stack) ==
    IF comps = <<>> THEN stack
    ELSE IF comps[1] = DotDot
         THEN Walk(Tail(comps), IF stack = <<>> THEN <<>> ELSE SubSeq(stack, 1, Len(stack) - 1))
         ELSE Walk(Tail(comps), Append(stack, comps[1]))

Resolved(s) == Walk(Components(s), <<>>)

\* path names a file in the subtree of directory root
Inside(root, path) ==
    /\ Len(Resolved(path)) > Len(Resolved(root))
    /\ SubSeq(Resolved(path), 1, Len(Resolved(root))) = Resolved(root)

\* C17. No accepted locator escapes the archive directory: every path that
\* make_bundle_path(root) returns names a file in the subtree of root.
C17_NoEscape == rep.state = "pathed" => Inside(rep.root, rep.path)

Remote(url) == url.scheme # "file"

\* the namespace segments and the name segment of a locator, decoded
DecodedSegments(url) ==
    LET segs == SelectSeq(url.path, NonEmpty)
    IN [k \in 1..Len(segs) |-> unquote_plus(segs[k])]

\* root/h/<decoded namespace segments>/<decoded name>.bundle as the chain of
\* names it leads through
ExpectedRemote(root, url) ==
    LET d == DecodedSegments(url)
    IN Components(root) \o << <<url.hostname>> >> \o SubSeq(d, 1, Len(d) - 1)
           \o << d[Len(d)] \o <<".bundle">> >>

RECURSIVE LStrip(_)
LStrip(s) == IF s # <<>> /\ s[1] = "/" THEN LStrip(Tail(s)) ELSE s

\* root/_filesystem/<decoded source path, leading separator stripped>.bundle
ExpectedLocal(root, url) ==
    os_path_join(<< root, <<FILESYSTEM_DIR_BASENAME>>,
                    LStrip(get_repository_argument(url)) \o <<".bundle">> >>)

\* the source path read back from an archive path under root: the names
\* below root/_filesystem, the last without its '.bundle'
SourceRead(root, path) ==
    LET c == Components(path)
        below == SubSeq(c, Len(Components(root)) + 2, Len(c))
        last == below[Len(below)]
    IN SubSeq(below, 1, Len(below) - 1) \o << SubSeq(last, 1, Len(last) - 1) >>

\* the archive path of rep is below root/_filesystem and the source path of
\* rep's locator can be read back from it, as a chain of names: two local
\* locators of different source paths therefore never have one archive path
NoCollision ==
    /\ SubSeq(Components(rep.path), 1, Len(Components(rep.root)) + 1)
           = Components(rep.root) \o << <<FILESYSTEM_DIR_BASENAME>> >>
    /\ rep.path[Len(rep.path)] = ".bundle"
    /\ SourceRead(rep.root, rep.path) = Components(get_repository_argument(rep.url))

\* the locator's path has no empty segment (no '//' and no '/' at its end)
NoEmptySegment(url) == \A k \in 1..Len(url.path) : NonEmpty(url.path[k])

\* the locator's path does not end with '/'
NoTrailingSeparator(url) == url.path # <<>> /\ NonEmpty(url.path[Len(url.path)])

C20_SentinelDistinct ==
    Accepted /\ Remote(rep.url) => RepoHost(rep.url) # FILESYSTEM_DIR_BASENAME

\* the number of non-empty segments of the locator's path
SegmentCount(url) == Len(SelectSeq(url.path, NonEmpty))

\* one of the four defects of a locator that C21 lists
Defective(url) ==
    \/ url.scheme \notin {"https", "file"}
    \/ url.scheme # "file" /\ url.hostname = ""
    \/ url.port # NoPort
    \/ SegmentCount(url) < 2

\* C21. Repository construction has failed for every locator with an
\* unsupported scheme (a bare path has none), a missing host under a network
\* scheme, an explicit port or fewer than two non-empty path segments; a
\* locator that was accepted has none of these defects.
C21_DefectiveRejected ==
    Constructed /\ Defective(rep.url) => rep.state = "error"

\* a locator whose only defect is its port has been refused
C21_Witness ==
    /\ rep.state = "error"
    /\ rep.url.port # NoPort
    /\ rep.url.scheme = "https" /\ rep.url.hostname = "hostA"
    /\ SegmentCount(rep.url) >= 2 /\ ~SegmentEscapes(rep.url)

\* percent-decoding of one character: an escape stands for its character,
\* every other character, '+' among them, for itself
PercentDecodeChar(c) ==
    CASE c = "%2F" -> "/"
      [] c = "%2f" -> "/"
      [] c = "%20" -> " "
      [] c = "%2E" -> "."
      [] OTHER     -> c

PercentDecode(text) == [k \in 1..Len(text) |-> PercentDecodeChar(text[k])]

\* C22. get_repository_argument has returned the locator as it was given for
\* a remote locator, and the percent-decoded absolute path of the locator
\* for a local one.
C22_RepositoryArgument ==
    rep.state \in {"ok", "pathed"} /\ rep.arg # <<>>
        => IF Remote(rep.url)
           THEN rep.arg = << rep.url >>
           ELSE rep.arg = << PercentDecode(RawPath(rep.url)) >>

----------------------------------------------------------------------------
(* Properties of check_git_version (SpecVersion) *)

\* C23. Version gate: check_git_version has raised GitVersionException
\* exactly when major < 2, or major = 2 and minor < 3, and has returned
\* otherwise, for tuples of two and of three numbers alike.
C23_VersionGate ==
    pure.state = "done"
        => (pure.result = "GitVersionException"
              <=> \/ pure.input[1] < 2
                  \/ pure.input[1] = 2 /\ pure.input[2] < 3)
           /\ pure.result \in {"GitVersionException", "returned"}

\* 2.2.x with a large patch number has been refused
C23_Witness ==
    /\ pure.state = "done"
    /\ pure.input = <<2, 2, MaxVersionPart>>
    /\ pure.result = "GitVersionException"

----------------------------------------------------------------------------
(* Properties of main (SpecMain) *)

\* nothing of the batch has been touched: the index was not read, no
\* Bundler exists, no locator was parsed, throttled, cloned or bundled
NothingProcessed ==
    /\ pc = "unborn"
    /\ urls = <<>>
    /\ thr = NoCall
    /\ cmdlog = <<>>
    /\ scratch = {}
    /\ writes = 0

\* C24. A version of the external tool that is too old or cannot be read
\* ends main with an error while nothing of the batch has been touched, and
\* whenever main is past line 314 (reading the index, or running bundle_all)
\* the version check has passed.
C24_VersionCheckedFirst ==
    /\ main.version \in {"old", "unreadable"} => main.pc = "raised" /\ NothingProcessed
    /\ main.pc \in {"index", "bundle_all"} \/ ~NothingProcessed => main.version = "ok"

\* git 2.1.29 was found, main has raised, the index is still unread
C24_Witness ==
    /\ main.version = "old"
    /\ main.pc = "raised"
    /\ clean_index_urls(main.index) # <<>>
    /\ NothingProcessed

\* main has ended after bundle_all was called on a batch of valid locators
RunOverValidBatch ==
    /\ main.pc \in {"returned", "raised"}
    /\ pc # "unborn"
    /\ urls # <<>>
    /\ \A k \in Indices : RepositoryOK(urls[k])

\* the status the run ends with is not 0: main returned another number, or
\* an exception left main
RunFailed == main.pc = "raised" \/ main.status # 0

\* C25. Exit status: a run over a non-empty batch of valid locators ends
\* with a non-zero status if and only if no locator ended Succeeded or
\* Skipped.
C25_ExitStatus ==
    RunOverValidBatch
        => (RunFailed <=> Ended("Succeeded") \cup Ended("Skipped") = {})

----------------------------------------------------------------------------
(* Further properties of bundle_all (Spec) *)

IsThrottle(entry) == entry[1] = "throttle"

\* the throttle calls made so far, in order
ThrottleLog == SelectSeq(cmdlog, IsThrottle)

\* the number of locators the loop of bundle_all has reached and throttled
Reached ==
    IF pc = "throttle" THEN idx - 1
    ELSE IF idx > Len(urls) THEN Len(urls)
    ELSE idx

\* C26. The throttle calls bundle_all has made are, in order, one for each
\* locator its loop has reached and no other, each with the locator's host
\* as the key and each immediately before the locator's mirror clone; when
\* bundle_all returns, the number of throttle calls with a key is the number
\* of locators of the batch with that host, whatever their outcomes.
C26_ThrottleOncePerLocator ==
    /\ ThrottleLog = [k \in 1..Reached |-> <<"throttle", k, RepoHost(urls[k])>>]
    /\ thr.calls = Reached
    /\ \A n \in 1..Len(cmdlog) :
         cmdlog[n][1] = "clone"
            => n > 1 /\ cmdlog[n - 1][1] = "throttle" /\ cmdlog[n - 1][2] = cmdlog[n][2]
    /\ pc = "done"
         => \A h \in Categories :
              Cardinality({ i \in 1..Len(ThrottleLog) : ThrottleLog[i][3] = h })
                 = Cardinality({ k \in Indices : RepoHost(urls[k]) = h })

\* bundle_all has returned from a batch over two hosts in which one locator
\* failed, one was skipped and one was bundled
C26_Witness ==
    /\ pc = "done"
    /\ Len(urls) = MaxBatch
    /\ Ended("Failed") # {} /\ Ended("Skipped") # {} /\ Ended("Succeeded") # {}
    /\ \E j, k \in Indices : RepoHost(urls[j]) # RepoHost(urls[k])
    /\ \E j, k \in Indices : j # k /\ RepoHost(urls[j]) = RepoHost(urls[k])

\* the archive path of locator k
PathOf(k) == make_bundle_path(urls[k])

\* C27. check_bundle_required has returned True (bundle is about to create
\* the archive) only with ignore_rev set, or no file at the archive path, or
\* an archive whose head differs from the head of the fresh clone; it has
\* returned False (the locator ended Skipped) only with ignore_rev unset and
\* an archive at the path whose head is the head of the fresh clone.
C27_BundleRequired ==
    /\ pc = "create"
         => \/ ignore_rev
            \/ ~Exists(bundle_path)
            \/ remote_rev = SrcHead(repo) /\ archive[bundle_path].rev # remote_rev
    /\ \A k \in Ended("Skipped") :
         /\ ~ignore_rev
         /\ Exists(PathOf(k))
         /\ archive[PathOf(k)].rev = SrcHead(urls[k])
         /\ Ran("head", k, "ok") /\ Ran("bundle-head", k, "ok")

\* both heads were read and differ: the stale archive is about to be rewritten
C27_Witness ==
    /\ pc = "create"
    /\ ~ignore_rev
    /\ Exists(bundle_path)
    /\ remote_rev = SrcHead(repo)
    /\ archive[bundle_path].rev # remote_rev

----------------------------------------------------------------------------
(* Further properties of Throttler (SpecThrottle) *)

\* C28. A Throttler with delay 0 never blocks: whatever calls were made
\* before and whatever the key, the last throttle call did not sleep.
C28_ZeroDelayNeverSleeps ==
    delay = 0 /\ thr.calls > 0 => thr.slept = 0

\* with delay 0, a key is throttled again at the very instant its previous
\* call was granted, and the call does not sleep
C28_Witness ==
    /\ delay = 0
    /\ thr.calls = MaxCalls
    /\ ~thr.first
    /\ thr.entry = thr.last
    /\ thr.slept = 0

----------------------------------------------------------------------------
(* Properties of BundleConfig (SpecConfig) *)

\* the value given for keyword k, or the default d when k was not given
Given(kw, k, d) ==
    IF \E i \in 1..Len(kw) : kw[i][1] = k
    THEN kw[CHOOSE i \in 1..Len(kw) : kw[i][1] = k][2]
    ELSE d

\* C29. BundleConfig(**kwargs) has raised exactly when some keyword is
\* neither ignore_rev nor throttler; when it was constructed, each of the two
\* fields holds the value given for it, or its default when none was given.
C29_UnknownKeywordRejected ==
    pure.state = "done"
        => /\ pure.result # "constructed"
                <=> \E i \in 1..Len(pure.input) :
                        pure.input[i][1] \notin {"ignore_rev", "throttler"}
           /\ pure.result = "constructed"
                => /\ pure.attrs.ignore_rev = Given(pure.input, "ignore_rev", "False")
                   /\ pure.attrs.throttler = Given(pure.input, "throttler", "Throttler(1.0)")

----------------------------------------------------------------------------
(* Properties of clean_index_urls (SpecIndex) *)

\* the text is empty or whitespace only
Blank(text) == \A k \in 1..Len(text) : text[k] = " "

\* the first character of the text that is not whitespace is '#'
Comment(text) ==
    \E k \in 1..Len(text) : text[k] = "#" /\ \A j \in 1..(k - 1) : text[j] = " "

Wanted(line) == ~Blank(line.text) /\ ~Comment(line.text)

\* C30. clean_index_urls has returned exactly the lines of its input that
\* are neither blank nor comment lines, in their order and as they were given.
C30_CleanIndex ==
    pure.state = "done" => pure.result = SelectSeq(pure.input, Wanted)

\* a comment line that starts with whitespace was dropped, and the line with
\* a '#' after other text was kept as it is
C30_Witness ==
    /\ pure.state = "done"
    /\ pure.input = << [text |-> <<" ", "#">>, url |-> NoUrl],
                       [text |-> <<"u", "#">>, url |-> NoUrl] >>
    /\ pure.result = << [text |-> <<"u", "#">>, url |-> NoUrl] >>

----------------------------------------------------------------------------
(* Properties of bundle and bundle_all, continued (Spec) *)

\* the archive of the current locator exists and its head is not the head of
\* the source
ArchiveStale == Exists(bundle_path) /\ archive[bundle_path].rev # SrcHead(repo)

\* C31. Stale archive is rewritten: while bundle works on a locator whose
\* archive exists with a head other than the head of the fresh clone, no step
\* ends the locator Skipped; the probe that has read both heads hands over to
\* bundle-create for the same locator, hence the same path, leaving the tree
\* as it was; and a bundle-create that exits zero ends the locator Succeeded
\* (bundle returns the path, the locator is counted) with the head of the
\* source as the head of the archive at that path.
C31_StaleRewritten ==
    [][ /\ (InBundle /\ pc # "clone" /\ ArchiveStale)
            => /\ outcome'[idx] # "Skipped"
               /\ (pc = "probe_bundle" /\ StepRuns("bundle-head", "ok"))
                     => /\ pc' = "create"
                        /\ idx' = idx
                        /\ archive' = archive
               /\ (pc = "create" /\ StepRuns("bundle-create", "ok"))
                     => /\ outcome'[idx] = "Succeeded"
                        /\ num_ok' = num_ok + 1
                        /\ archive'[bundle_path].rev = SrcHead(repo)
                        /\ archive'[bundle_path].mtime > archive[bundle_path].mtime
                        /\ \A p \in DOMAIN archive \ {bundle_path} : archive'[p] = archive[p] ]_vars

\* without ignore_rev the probe read both heads of a locator, bundle-create
\* then ran for it and exited zero, and the archive now has the head of the
\* source and the time of the one write made
C31_Witness ==
    /\ ~ignore_rev
    /\ pc = "done"
    /\ writes = 1
    /\ \E k \in Indices :
          /\ Ran("head", k, "ok")
          /\ Ran("bundle-head", k, "ok")
          /\ Ran("bundle-create", k, "ok")
          /\ outcome[k] = "Succeeded"
          /\ archive[make_bundle_path(urls[k])] = [rev |-> SrcHead(urls[k]), mtime |-> 1]

\* a head query (on the fresh clone or on the materialized archive) that
\* gave no revision: it exited non-zero or printed nothing
UnreadableHead(entry) ==
    /\ entry[1] \in {"head", "bundle-head"}
    /\ entry[3] \in {"nonzero", "empty"}

\* C32. An unreadable revision is never treated as up to date: a locator for
\* which a head query exited non-zero or printed nothing has not ended
\* Skipped (nor Succeeded), and the counter holds successes of other locators
\* only.
C32_UnreadableNeverCurrent ==
    \A n \in 1..Len(cmdlog) :
        UnreadableHead(cmdlog[n])
            => /\ outcome[cmdlog[n][2]] \notin {"Skipped", "Succeeded"}
               /\ num_ok = Cardinality({ j \in Indices \ {cmdlog[n][2]} :
                                            outcome[j] \in {"Skipped", "Succeeded"} })

\* the archive of the second locator had the head of the source, the query
\* on its materialization printed nothing, and only the first locator counts
C32_Witness ==
    /\ Len(urls) >= 2
    /\ Ran("bundle-head", 2, "empty")
    /\ archive[make_bundle_path(urls[2])].rev = SrcHead(urls[2])
    /\ outcome[2] = "Pending"
    /\ outcome[1] = "Skipped"
    /\ num_ok = 1

Terminal == {"Succeeded", "Skipped", "Failed"}

\* the step changes the filesystem: the archive tree or the scratch area
FilesystemChange == archive' # archive \/ dirs' # dirs \/ scratch' # scratch

\* C33. bundle_all processes the locators one at a time in input order: a
\* step that makes a throttle call, runs an external command or changes the
\* filesystem does so for the one locator the loop is at; all locators before
\* it in the batch have reached a terminal state, none after it has been
\* touched; the throttle call that opens a locator finds no scratch directory
\* left; and the log never goes back to an earlier locator.
C33_OneAtATime ==
    [][ (NewCommands # {} \/ FilesystemChange)
            => /\ idx \in Indices
               /\ \A c \in NewCommands : c[2] = idx
               /\ \A j \in Indices : j < idx => outcome[j] \in Terminal
               /\ \A j \in Indices : j > idx => outcome[j] = "Pending" /\ ~Invoked("throttle", j)
               /\ outcome[idx] = "Pending"
               /\ \A n \in 1..Len(cmdlog) : cmdlog[n][2] <= idx
               /\ pc = "throttle" => scratch = {} /\ ~Invoked("throttle", idx) ]_vars

\* bundle_all returned from a full batch whose locators ended Failed, Skipped
\* and Succeeded in turn, the scratch area having been in use for the last two
C33_Witness ==
    /\ pc = "done"
    /\ Len(urls) = MaxBatch
    /\ outcome[1] = "Failed"
    /\ outcome[2] = "Skipped"
    /\ outcome[MaxBatch] = "Succeeded"
    /\ Ran("bundle-clone", 2, "ok")
    /\ scratch = {}

\* C34. Termination: from every batch of valid locators, every external
\* command and every throttle sleep coming back, bundle_all eventually
\* returns with every locator of the batch in one of the terminal states
\* Succeeded, Skipped and Failed.
C34_Termination ==
    (~HasMalformed /\ pc = "start")
        ~> (pc = "done" /\ \A k \in Indices : outcome[k] \in Terminal)

\* every scratch directory but the parent lies in a scratch directory that exists
Nested == \A d \in scratch : Len(d) > 1 => SubSeq(d, 1, Len(d) - 1) \in scratch

\* C35. Scratch directories are strictly nested: the only scratch directories
\* are the parent, the clone directory and the probe's temporary directory,
\* the last two inside the parent; an inner directory exists only while the
\* parent does; the probe's directory exists only between the materialization
\* of the archive and the head query on it, and the step that ends the probe,
\* by return or by exception, removes it and leaves the parent; the parent is
\* released only by a later step, which leaves nothing.
C35_ScratchNested ==
    [][ /\ scratch \subseteq {ParentDir, CloneDir, ProbeDir}
        /\ Nested
        /\ ProbeDir \in scratch => pc = "probe_bundle" /\ CloneDir \in scratch
        /\ pc = "probe_bundle" => ProbeDir \in scratch
        /\ (pc \in {"probe_materialize", "probe_bundle"} /\ pc' # "probe_bundle")
              => /\ ProbeDir \notin scratch'
                 /\ ParentDir \in scratch'
                 /\ pc' \in {"create", "skip", "unwind"}
        /\ (ParentDir \in scratch /\ ParentDir \notin scratch')
              => /\ ProbeDir \notin scratch
                 /\ scratch' = {}
                 /\ ~InBundle' ]_vars

\* the probe's head query has failed: the exception is on its way out of
\* bundle, the probe's directory is gone, the parent and the clone directory
\* are still there
C35_Witness ==
    /\ pc = "unwind"
    /\ \E k \in Indices : Ran("bundle-clone", k, "ok") /\ Ran("bundle-head", k, "nonzero")
    /\ scratch = {ParentDir, CloneDir}

\* the step ends locator idx: bundle returns
Returns == InBundle /\ outcome[idx] = "Pending" /\ outcome'[idx] # "Pending"

\* C36. When a locator ends Succeeded or Skipped bundle returns the archive
\* path of the locator, make_bundle_path under the root, and an archive file
\* exists at that path; when it ends Failed, which it does at the clone or
\* bundle-create step only and on a non-zero exit, bundle returns None; and
\* bundle returns in no other way.
C36_BundleReturn ==
    [][ /\ Returns
            => /\ outcome'[idx] \in {"Succeeded", "Skipped"}
                   => /\ ret' = PathValue(make_bundle_path(urls[idx]))
                      /\ archive'[ret'.path] # NoFile
               /\ outcome'[idx] = "Failed"
                   => /\ ret' = None
                      /\ StepRuns("clone", "nonzero") \/ StepRuns("bundle-create", "nonzero")
               /\ outcome'[idx] \in Terminal
        /\ ret' # ret => Returns ]_vars

\* bundle returned None for the first locator, whose bundle-create failed
\* where no archive was, and has now returned the path of the second, which
\* was skipped
C36_Witness ==
    /\ Len(urls) >= 2
    /\ outcome[1] = "Failed"
    /\ Ran("bundle-create", 1, "nonzero")
    /\ ~Exists(make_bundle_path(urls[1]))
    /\ outcome[2] = "Skipped"
    /\ ret = PathValue(make_bundle_path(urls[2]))
    /\ Exists(ret.path)
    /\ pc \in {"throttle", "done"}

\* C37. Processing one locator changes no shared state other than the ledger
\* entry of its host and the archive tree at its own archive path: a step
\* that changes the tree or the ledger is a step of the loop for the locator
\* it is at; every archive file at another path than make_bundle_path of that
\* locator is left as it was; the only directories made are those on the way
\* to its archive file; every ledger entry of another host is left as it
\* was; and the batch and the configuration are never changed.
C37_Frame ==
    [][ /\ (archive' # archive \/ dirs' # dirs \/ most_recent' # most_recent)
            => /\ idx \in Indices
               /\ \A p \in DOMAIN archive :
                     p # make_bundle_path(urls[idx]) => archive'[p] = archive[p]
               /\ DOMAIN archive' = DOMAIN archive
               /\ dirs \subseteq dirs'
               /\ dirs' \ dirs \subseteq MakeDirs(BundleDir(make_bundle_path(urls[idx])))
               /\ \A c \in DOMAIN most_recent' :
                     c # RepoHost(urls[idx])
                        => c \in DOMAIN most_recent /\ most_recent'[c] = most_recent[c]
               /\ DOMAIN most_recent \subseteq DOMAIN most_recent'
        /\ urls' = urls
        /\ ignore_rev' = ignore_rev
        /\ delay' = delay ]_vars

\* a batch over two hosts is done; the archive of one locator was written
\* twice over an older one, while the older archive of another locator, whose
\* bundle-create failed, is as it was
C37_Witness ==
    /\ pc = "done"
    /\ Cardinality(DOMAIN most_recent) = 2
    /\ \E k, j \in Indices :
          /\ make_bundle_path(urls[k]) # make_bundle_path(urls[j])
          /\ outcome[k] = "Succeeded"
          /\ archive[make_bundle_path(urls[k])].mtime = 2
          /\ outcome[j] = "Failed"
          /\ Ran("bundle-create", j, "nonzero")
          /\ archive[make_bundle_path(urls[j])] = [rev |-> "c1", mtime |-> 0]

\* the states of bundle inside the freshness probe and after it
ProbePcs == {"probe_clone", "probe_materialize", "probe_bundle", "skip", "unwind"}

ProbeCommands == {"head", "bundle-clone", "bundle-config", "bundle-head"}

\* C38. The freshness probe is short-circuited: while bundle works on a
\* locator with ignore_rev set or with no file at its archive path, no step
\* runs a command of the probe (head query on the clone, materialization of
\* the archive, head query on it), bundle is never inside the probe and no
\* step raises; check_bundle_required goes straight to bundle-create without
\* running anything.
C38_ShortCircuit ==
    [][ (InBundle /\ (ignore_rev \/ ~Exists(make_bundle_path(urls[idx]))))
            => /\ \A c \in NewCommands : c[1] \notin ProbeCommands
               /\ pc \notin ProbePcs
               /\ pc' \notin ProbePcs
               /\ pc' # "raised"
               /\ error' = "none"
               /\ pc = "check" => pc' = "create" /\ cmdlog' = cmdlog /\ scratch' = scratch
               /\ ~Invoked("head", idx) ]_vars

\* without ignore_rev, bundle is about to create the first archive of a
\* locator, the clone done and no command of the probe run for it
C38_Witness ==
    /\ ~ignore_rev
    /\ pc = "create"
    /\ ~Exists(bundle_path)
    /\ Ran("clone", idx, "ok")
    /\ \A c \in ProbeCommands : ~Invoked(c, idx)
    /\ idx > 1
    /\ Invoked("head", idx - 1)

----------------------------------------------------------------------------
(* Properties of Repository, continued (SpecRepo) *)

\* C39. The requirement of a non-empty namespace holds for local locators as
\* for remote ones: construction has failed for every locator, file URIs
\* included, whose path has one non-empty segment or none; a file URI with
\* one segment that is otherwise sound fails the final assertion, and a
\* supported locator without a port, with a host where one is needed and
\* without any segment fails on the missing name.
C39_NamespaceRequired ==
    (Constructed /\ SegmentCount(rep.url) < 2)
        => /\ rep.state = "error"
           /\ (/\ rep.url.scheme = "file"
               /\ rep.url.port = NoPort
               /\ SegmentCount(rep.url) = 1
               /\ ~SegmentEscapes(rep.url)) => rep.error = "AssertionError"
           /\ (/\ rep.url.scheme \in _SUPPORTED_SCHEMES
               /\ rep.url.port = NoPort
               /\ rep.url.scheme = "file" \/ rep.url.hostname # ""
               /\ SegmentCount(rep.url) = 0) => rep.error = "IndexError"

\* the file URI of a source directly under the filesystem root (file:///r1,
\* also written with empty segments around the name) has been refused
C39_Witness ==
    /\ rep.state = "error"
    /\ rep.error = "AssertionError"
    /\ rep.url.scheme = "file"
    /\ rep.url.hostname = ""
    /\ rep.url.port = NoPort
    /\ rep.url.path = << <<>>, <<"r1">>, <<>> >>

============================================================================
